---- MODULE Spec2Model ----
(***************************************************************************)
(* Model of HW4/mp2.py: the parameter sweep orchestrator                   *)
(* (parameter_sweep, process_chunk_worker) and the adaptive integration    *)
(* driver (time_to_schwarzschild) with the kernels it rests on.            *)
(*                                                                         *)
(* Spec       : one call of parameter_sweep, from its arguments to its     *)
(*              return or raise, with the workers of the pool interleaved. *)
(* SpecDriver : one call of time_to_schwarzschild, iteration by iteration. *)
(*                                                                         *)
(* Numpy arrays are records [none, shape, data] (data in row-major order), *)
(* so that ndim, len, reshape and row indexing are computed as numpy       *)
(* computes them.  The crossing time of a run is kept symbolic: the time   *)
(* for (A, B, v0) is the tuple <<A, B, v0>>; floating point values of the  *)
(* driver are scaled integers.                                             *)
(***************************************************************************)
EXTENDS Integers, Sequences, FiniteSets, TLC

\* ------------------------------------------------------------------ bounds
\* longest A_values / B_values / v0_values argument
MaxLen == 2
\* largest grid (number of cells) of a call
MaxCells == 4
\* largest chunk_size argument (the smallest is -1)
MaxChunk == 3
\* largest initial step size dt of a driver call, in time units
MaxDt == 2
\* largest tf of a driver call, in time units
MaxTf == 6
\* largest position |r| of the driver, in units of the threshold radius
MaxR == 2
\* largest step-size factor rho^(1/4) the error control yields, in halves
MaxFactor == 5

\* ---------------------------------------------------------- numpy arrays
None == [none |-> TRUE, shape |-> <<>>, data |-> <<>>]

Array(shape, data) == [none |-> FALSE, shape |-> shape, data |-> data]

\* a.ndim
Ndim(a) == Len(a.shape)

\* len(a) of an array of at least one dimension
PyLen(a) == a.shape[1]

\* a.reshape(-1, 1) in place of a.reshape(1, -1): every element a row
Reshape1_Column(a) == Array(<<Len(a.data), 1>>, a.data)

\* a.reshape(1, -1): the same data as one row
Reshape1(a) == Array(<<1, Len(a.data)>>, a.data)

\* a[k] of a 2-D array: row k (0-based), a vector
Row(a, k) == SubSeq(a.data, k * a.shape[2] + 1, (k + 1) * a.shape[2])

\* a[i] of a 1-D array (0-based)
Item(a, i) == a.data[i + 1]

\* np.array([1.0])
DefaultValues == Array(<<1>>, <<1>>)

\* ----------------------------------------------------------- the kernels
RECURSIVE SumSq(_)
\* np.linalg.norm(v)**2 of an integer vector; it is 0 exactly when |v| = 0
SumSq(v) == IF v = <<>> THEN 0 ELSE Head(v) * Head(v) + SumSq(Tail(v))

\* vel_dispersion(v, A, B) = -A/(|v|^3 + B) * v.  The division is a scalar
\* float division inside an njit function: a zero denominator raises
\* ZeroDivisionError; there is no guard.  The value itself is symbolic.
VelDispersion(v, A, B) ==
  IF SumSq(v) = 0 /\ B = 0
  THEN [ok |-> FALSE, val |-> <<>>]
  ELSE [ok |-> TRUE, val |-> <<A, B, v>>]

\* rk4_step evaluates vel_dispersion(v, A, B) for k1_v first, whatever
\* alpha_dispersion is (the product alpha_dispersion * vel_dispersion(...)
\* is formed after the call): the step raises when that call raises.
Rk4StepRaises(v, A, B) == ~VelDispersion(v, A, B).ok

\* time_to_schwarzschild(r0, v0_k, dt, tf, tol, alpha_dispersion, A_i, B_j)
\* as the sweep sees it, for dt and tf that give the loop at least one
\* iteration: the first rk4_step is taken from (r0, v0_k), so the call
\* raises when that step raises; otherwise it returns the time of this run.
TimeToSchwarzschild(v0_k, A_i, B_j) ==
  IF Rk4StepRaises(v0_k, A_i, B_j)
  THEN [ok |-> FALSE, t |-> <<>>]
  ELSE [ok |-> TRUE, t |-> <<A_i, B_j, v0_k>>]

\* the value np.zeros puts in a cell
Zero == <<>>


\* ------------------------------------------------------- state of a sweep
VARIABLES
  args,        \* the arguments of the call of parameter_sweep
  A_values,    \* the local A_values
  B_values,    \* the local B_values
  v0_values,   \* the local v0_values
  results,     \* the results tensor: cell <<i, j, k>> -> value
  params,      \* the list of index triples
  chunks,      \* the list of batches
  futures,     \* batch number -> [st, out]: the task of the batch
  yielded,     \* the batches whose task the collecting loop has taken
  nmerged,     \* batch number -> how often its output was merged
  writes,      \* cell -> how often results[i, j, k] was assigned
  calls,       \* calls of time_to_schwarzschild made so far
  dispatched,  \* batches handed to the pool so far
  pc,          \* where the call is
  err          \* the exception the call raised

svars == <<args, A_values, B_values, v0_values, results, params, chunks,
           futures, yielded, nmerged, writes, calls, dispatched, pc, err>>

\* ------------------------------------------- state of a run of the driver
VARIABLES
  dargs,       \* the arguments of the call of time_to_schwarzschild
  num_steps,   \* int(tf / dt)
  r,           \* the committed position
  v,           \* the committed velocity
  t,           \* the accumulated simulated time
  i,           \* the accepted-step counter
  dt,          \* the current step size
  last,        \* what the latest iteration did: "none", "accept", "reject"
  tick,        \* the parity of the number of iterations made
  dpc,         \* where the call is
  ret          \* the value returned

dvars == <<dargs, num_steps, r, v, t, i, dt, last, tick, dpc, ret>>

vars == <<svars, dvars>>

\* ------------------------------------------------- arguments of the sweep
\* A_values: None, or 0..MaxLen distinct values 2, 3, ...
AArgs == {None} \cup {Array(<<n>>, [m \in 1..n |-> m + 1]) : n \in 0..MaxLen}

\* B_values: None, or 0..MaxLen distinct values that start 0, 1 or 1, 0
BArgs ==
  {None, Array(<<0>>, <<>>)} \cup
  {Array(<<n>>, [m \in 1..n |-> IF m = 1 THEN b
                                ELSE IF m = 2 THEN 1 - b ELSE m - 1]) :
     n \in 1..MaxLen, b \in {0, 1}}

\* a 2-D array of n rows of dimension d: the rows of Z are zero vectors,
\* row m of the others holds m in every place
Rows(n, d, Z) ==
  Array(<<n, d>>, [x \in 1..(n * d) |->
                     IF ((x - 1) \div d) + 1 \in Z THEN 0
                     ELSE ((x - 1) \div d) + 1])

\* a flat vector of length n: zero, or 1, 2, ..., n
Flat(n, zero) == Array(<<n>>, [x \in 1..n |-> IF zero THEN 0 ELSE x])

\* v0_values: None, a 0-d scalar, a flat vector, a 2-D array, a 3-D array
VArgs ==
  {None, Array(<<>>, <<1>>), Array(<<1, 1, 1>>, <<1>>)} \cup
  {Flat(n, z) : n \in 0..MaxLen, z \in BOOLEAN} \cup
  {Rows(n, d, Z) : n \in 0..MaxLen, d \in 1..MaxLen, Z \in SUBSET (1..MaxLen)}

Backends == {"thread", "process", "multiprocessing", "dask"}

ChunkSizes == (-1)..MaxChunk

\* the number of cells the call would sweep (0 when v0_values is rejected)
GridSize(a) ==
  LET na == IF a.A_values.none THEN 1 ELSE PyLen(a.A_values)
      nb == IF a.B_values.none THEN 1 ELSE PyLen(a.B_values)
      nv == IF a.v0_values.none THEN 0
            ELSE IF Ndim(a.v0_values) = 2 THEN PyLen(a.v0_values)
            ELSE IF Ndim(a.v0_values) = 1 /\ PyLen(a.v0_values) > 0 THEN 1
            ELSE 0
  IN  na * nb * nv

SweepArgs ==
  {a \in [A_values : AArgs, B_values : BArgs, v0_values : VArgs,
          parallel : BOOLEAN, backend : Backends, chunk_size : ChunkSizes,
          show_progress : BOOLEAN] : GridSize(a) <= MaxCells}


\* ------------------------------------------------- parameter_sweep: data
\* the cells of a tensor of shape (na, nb, nv)
Cells(na, nb, nv) == (0..(na - 1)) \X (0..(nb - 1)) \X (0..(nv - 1))

\* np.zeros((na, nb, nv))
Zeros(na, nb, nv) == [c \in Cells(na, nb, nv) |-> Zero]

\* [(i, j, k) for i in range(na) for j in range(nb) for k in range(nv)]
Params(na, nb, nv) ==
  [n \in 1..(na * nb * nv) |->
     <<(n - 1) \div (nb * nv), ((n - 1) \div nv) % nb, (n - 1) % nv>>]

Min(a, b) == IF a <= b THEN a ELSE b

\* the test chunk_size == 1 in place of chunk_size <= 1: range() with a
\* negative step is empty, so no batch is built
Chunks_NoFloor(ps, chunk_size) ==
  IF chunk_size = 1
  THEN [n \in 1..Len(ps) |-> <<ps[n]>>]
  ELSE IF chunk_size <= 0 THEN <<>>
  ELSE [m \in 1..((Len(ps) + chunk_size - 1) \div chunk_size) |->
          SubSeq(ps, (m - 1) * chunk_size + 1,
                 Min(m * chunk_size, Len(ps)))]

\* the batches: [[p] for p in params] when chunk_size <= 1, otherwise
\* [params[k:k+chunk_size] for k in range(0, len(params), chunk_size)]
Chunks(ps, chunk_size) ==
  IF chunk_size <= 1
  THEN [n \in 1..Len(ps) |-> <<ps[n]>>]
  ELSE [m \in 1..((Len(ps) + chunk_size - 1) \div chunk_size) |->
          SubSeq(ps, (m - 1) * chunk_size + 1,
                 Min(m * chunk_size, Len(ps)))]

RECURSIVE ProcessChunkFrom(_, _, _, _, _, _)
\* the loop of process_chunk_worker from position n of the chunk, out being
\* the list built so far: [ok, out, ncalls], ok FALSE when a call of
\* time_to_schwarzschild raised (the exception leaves the worker)
ProcessChunkFrom(chunk, n, out, v0s, As, Bs) ==
  IF n > Len(chunk) THEN [ok |-> TRUE, out |-> out, ncalls |-> Len(chunk)]
  ELSE LET p   == chunk[n]
           v0_k == Row(v0s, p[3])
           A_i == Item(As, p[1])
           B_j == Item(Bs, p[2])
           tt  == TimeToSchwarzschild(v0_k, A_i, B_j)
       IN  IF ~tt.ok THEN [ok |-> FALSE, out |-> <<>>, ncalls |-> n]
           ELSE ProcessChunkFrom(chunk, n + 1,
                                 Append(out, <<p[1], p[2], p[3], tt.t>>),
                                 v0s, As, Bs)

\* v0_k selected once, from the first triple of the chunk, not per triple
ProcessChunkWorker_FirstV0(chunk, v0s, As, Bs) ==
  ProcessChunkFrom(chunk, 1, <<>>,
                   IF chunk = <<>> THEN v0s
                   ELSE Array(<<PyLen(v0s), v0s.shape[2]>>,
                              [x \in 1..Len(v0s.data) |->
                                 Row(v0s, chunk[1][3])[((x - 1) % v0s.shape[2]) + 1]]),
                   As, Bs)

\* process_chunk_worker(chunk, r0, v0_values, dt, tf, tol, alpha, A, B)
ProcessChunkWorker(chunk, v0s, As, Bs) ==
  ProcessChunkFrom(chunk, 1, <<>>, v0s, As, Bs)

\* the assignment after the loop in place of inside it: only the last
\* tuple of a batch is stored
MergeOut_LastOnly(res, out) ==
  IF out = <<>> THEN res
  ELSE [res EXCEPT ![<<out[Len(out)][1], out[Len(out)][2], out[Len(out)][3]>>]
                     = out[Len(out)][4]]

RECURSIVE MergeOut(_, _)
\* for (i, j, k, t) in chunk_out: results[i, j, k] = t
MergeOut(res, out) ==
  IF out = <<>> THEN res
  ELSE MergeOut([res EXCEPT ![<<out[1][1], out[1][2], out[1][3]>>] = out[1][4]],
                Tail(out))

RECURSIVE CountOut(_, _)
\* the assignments of that loop, counted per cell
CountOut(w, out) ==
  IF out = <<>> THEN w
  ELSE CountOut([w EXCEPT ![<<out[1][1], out[1][2], out[1][3]>>] = @ + 1],
                Tail(out))

RECURSIVE SequentialFrom(_, _, _, _, _, _, _)
\* the sequential loop from position n of params:
\* results[i, j, k] = time_to_schwarzschild(..., v0_values[k], ...,
\* A_values[i], B_values[j]); [ok, res, w, ncalls]
SequentialFrom(ps, n, res, w, v0s, As, Bs) ==
  IF n > Len(ps) THEN [ok |-> TRUE, res |-> res, w |-> w, ncalls |-> Len(ps)]
  ELSE LET p  == ps[n]
           tt == TimeToSchwarzschild(Row(v0s, p[3]), Item(As, p[1]),
                                     Item(Bs, p[2]))
       IN  IF ~tt.ok THEN [ok |-> FALSE, res |-> res, w |-> w, ncalls |-> n]
           ELSE SequentialFrom(ps, n + 1, [res EXCEPT ![p] = tt.t],
                               [w EXCEPT ![p] = @ + 1], v0s, As, Bs)

\* the sequential fill of a fresh tensor
SequentialSweep(v0s, As, Bs) ==
  LET na == PyLen(As)
      nb == PyLen(Bs)
      nv == PyLen(v0s)
  IN  SequentialFrom(Params(na, nb, nv), 1, Zeros(na, nb, nv),
                     [c \in Cells(na, nb, nv) |-> 0], v0s, As, Bs)

\* the thread pool as the fallback of an unnamed backend
BackendBranch_Fallback(backend) ==
  IF backend = "process" THEN "process"
  ELSE IF backend = "multiprocessing" THEN "multiprocessing"
  ELSE "thread"

\* which branch of the backend tests a parallel call takes
BackendBranch(backend) ==
  IF backend = "thread" THEN "thread"
  ELSE IF backend = "process" THEN "process"
  ELSE IF backend = "multiprocessing" THEN "multiprocessing"
  ELSE "unknown"

\* the batches whose task has not finished
Pending == {b \in DOMAIN futures : futures[b].st = "pending"}

\* the loop left after the first task taken
AllTaken_First(taken, fs) == taken # {} \/ DOMAIN fs = {}

\* the loop over as_completed / imap_unordered ends when it has taken the
\* result of every task
AllTaken(taken, fs) == taken = DOMAIN fs

\* the exception of a task swallowed: a failed task yields an empty list
FutureResult_Swallow(f) == [ok |-> TRUE, out |-> f.out]

\* future.result(): the worker's list, or the worker's exception again
FutureResult(f) == [ok |-> f.st = "done", out |-> f.out]


\* --------------------------------------------- parameter_sweep: the call
NoCells == [c \in {} |-> Zero]

NoWrites == [c \in {} |-> 0]

DriverIdle ==
  /\ dargs = [dt |-> 0, tf |-> 0, tol |-> 0, B |-> 0, r0 |-> 0, v0 |-> 0]
  /\ num_steps = 0 /\ r = 0 /\ v = 0 /\ t = 0 /\ i = 0 /\ dt = 0
  /\ last = "none" /\ tick = 0 /\ dpc = "idle" /\ ret = 0

Init ==
  /\ args \in SweepArgs
  /\ A_values = args.A_values
  /\ B_values = args.B_values
  /\ v0_values = args.v0_values
  /\ results = NoCells
  /\ params = <<>>
  /\ chunks = <<>>
  /\ futures = <<>>
  /\ yielded = {}
  /\ nmerged = <<>>
  /\ writes = NoWrites
  /\ calls = 0
  /\ dispatched = 0
  /\ pc = "call"
  /\ err = "none"
  /\ DriverIdle

\* whether v0_values passes the checks: it is not None, and as an array it
\* has two dimensions, or one dimension and at least one element
V0Accepted(v0) ==
  /\ ~v0.none
  /\ \/ Ndim(v0) = 2
     \/ Ndim(v0) = 1 /\ PyLen(v0) > 0

\* the defaults of A_values and B_values, the checks of v0_values, the
\* zero tensor and the index list
Validate ==
  /\ pc = "call"
  /\ A_values' = IF args.A_values.none THEN DefaultValues ELSE args.A_values
  /\ B_values' = IF args.B_values.none THEN DefaultValues ELSE args.B_values
  /\ IF ~V0Accepted(args.v0_values)
     THEN /\ pc' = "raised"
          /\ err' = "ValueError"
          /\ UNCHANGED <<v0_values, results, params, writes>>
     ELSE /\ v0_values' = IF Ndim(args.v0_values) # 2
                          THEN Reshape1(args.v0_values)
                          ELSE args.v0_values
          /\ results' = Zeros(PyLen(A_values'), PyLen(B_values'),
                              PyLen(v0_values'))
          /\ writes' = [c \in DOMAIN results' |-> 0]
          /\ params' = Params(PyLen(A_values'), PyLen(B_values'),
                              PyLen(v0_values'))
          /\ pc' = "ready"
          /\ UNCHANGED err
  /\ UNCHANGED <<args, chunks, futures, yielded, nmerged, calls, dispatched>>
  /\ UNCHANGED dvars

\* if not parallel: the sequential fill, then return results; an exception
\* of time_to_schwarzschild leaves the call
Sequential ==
  /\ pc = "ready"
  /\ ~args.parallel
  /\ LET s == SequentialSweep(v0_values, A_values, B_values)
     IN  /\ results' = s.res
         /\ writes' = s.w
         /\ calls' = calls + s.ncalls
         /\ pc' = IF s.ok THEN "returned" ELSE "raised"
         /\ err' = IF s.ok THEN err ELSE "ZeroDivisionError"
  /\ UNCHANGED <<args, A_values, B_values, v0_values, params, chunks,
                 futures, yielded, nmerged, dispatched>>
  /\ UNCHANGED dvars

\* the parallel path: create chunks
MakeChunks ==
  /\ pc = "ready"
  /\ args.parallel
  /\ chunks' = Chunks(params, args.chunk_size)
  /\ pc' = "chunked"
  /\ UNCHANGED <<args, A_values, B_values, v0_values, results, params,
                 futures, yielded, nmerged, writes, calls, dispatched, err>>
  /\ UNCHANGED dvars

\* every batch is handed to the pool: exe.submit per chunk, or
\* pool.imap_unordered over the argument tuples
Submit(branch) ==
  /\ pc = "chunked"
  /\ BackendBranch(args.backend) = branch
  /\ futures' = [b \in DOMAIN chunks |-> [st |-> "pending", out |-> <<>>]]
  /\ nmerged' = [b \in DOMAIN chunks |-> 0]
  /\ dispatched' = dispatched + Len(chunks)
  /\ pc' = "collect"
  /\ UNCHANGED <<args, A_values, B_values, v0_values, results, params,
                 chunks, yielded, writes, calls, err>>
  /\ UNCHANGED dvars

SubmitThread == Submit("thread")

SubmitProcess == Submit("process")

SubmitPool == Submit("multiprocessing")

\* no backend test matched: raise ValueError("Unknown backend ...")
UnknownBackend ==
  /\ pc = "chunked"
  /\ BackendBranch(args.backend) = "unknown"
  /\ pc' = "raised"
  /\ err' = "ValueError"
  /\ UNCHANGED <<args, A_values, B_values, v0_values, results, params,
                 chunks, futures, yielded, nmerged, writes, calls,
                 dispatched>>
  /\ UNCHANGED dvars

\* a worker of the pool runs the task of batch b to its end; the pool keeps
\* working while the orchestrator collects and while the executor's
\* shutdown waits
WorkerRun(b) ==
  /\ pc \in {"collect", "draining"}
  /\ b \in Pending
  /\ LET w == ProcessChunkWorker(chunks[b], v0_values, A_values, B_values)
     IN  /\ futures' = [futures EXCEPT ![b] =
                          [st |-> IF w.ok THEN "done" ELSE "failed",
                           out |-> w.out]]
         /\ calls' = calls + w.ncalls
  /\ UNCHANGED <<args, A_values, B_values, v0_values, results, params,
                 chunks, yielded, nmerged, writes, dispatched, pc, err>>
  /\ UNCHANGED dvars

\* one turn of the collecting loop: a finished task is taken, whichever
\* finished; its list is merged into results, or its exception leaves the
\* loop (onfail is where the call goes then)
Collect(b, onfail) ==
  /\ pc = "collect"
  /\ b \in DOMAIN futures
  /\ b \notin Pending
  /\ b \notin yielded
  /\ yielded' = yielded \cup {b}
  /\ LET fr == FutureResult(futures[b])
     IN  IF fr.ok
         THEN /\ results' = MergeOut(results, fr.out)
              /\ writes' = CountOut(writes, fr.out)
              /\ nmerged' = [nmerged EXCEPT ![b] = @ + 1]
              /\ UNCHANGED <<pc, err>>
         ELSE /\ pc' = onfail
              /\ err' = "ZeroDivisionError"
              /\ UNCHANGED <<results, writes, nmerged>>
  /\ UNCHANGED <<args, A_values, B_values, v0_values, params, chunks,
                 futures, calls, dispatched>>
  /\ UNCHANGED dvars

\* process_futures (thread and process backends): as_completed, then
\* future.result(); an exception leaves through the with block, whose exit
\* waits for the tasks still running
CollectFuture(b) ==
  /\ BackendBranch(args.backend) \in {"thread", "process"}
  /\ Collect(b, "draining")

\* the multiprocessing backend: imap_unordered; an exception leaves through
\* the with block, whose exit terminates the pool
CollectPool(b) ==
  /\ BackendBranch(args.backend) = "multiprocessing"
  /\ Collect(b, "raised")

\* Executor.__exit__ after an exception: shutdown(wait=True) has returned,
\* the exception goes on to the caller
ExecutorExit ==
  /\ pc = "draining"
  /\ Pending = {}
  /\ pc' = "raised"
  /\ UNCHANGED <<args, A_values, B_values, v0_values, results, params,
                 chunks, futures, yielded, nmerged, writes, calls,
                 dispatched, err>>
  /\ UNCHANGED dvars

\* the collecting loop is over: return results
Return ==
  /\ pc = "collect"
  /\ AllTaken(yielded, futures)
  /\ pc' = "returned"
  /\ UNCHANGED <<args, A_values, B_values, v0_values, results, params,
                 chunks, futures, yielded, nmerged, writes, calls,
                 dispatched, err>>
  /\ UNCHANGED dvars

Next ==
  \/ Validate
  \/ Sequential
  \/ MakeChunks
  \/ SubmitThread
  \/ SubmitProcess
  \/ SubmitPool
  \/ UnknownBackend
  \/ \E b \in DOMAIN chunks : WorkerRun(b)
  \/ \E b \in DOMAIN chunks : CollectFuture(b)
  \/ \E b \in DOMAIN chunks : CollectPool(b)
  \/ ExecutorExit
  \/ Return

Spec == Init /\ [][Next]_vars


\* ------------------------------------------------- time_to_schwarzschild
\* Times (t, dt, tf) are whole numbers of a time unit, positions and
\* velocities are 1-D vectors <<x>> with x a whole number, the position in
\* units of the threshold radius 1e-7.  What rk4_step computes is left
\* open: the state after a step is any state of the domain.  The error
\* control enters through rho^(1/4), a number of halves f: rho >= 1 exactly
\* when f >= 2.  tol is 0 or positive (1).

SweepIdle ==
  /\ args = [A_values |-> None, B_values |-> None, v0_values |-> None,
             parallel |-> FALSE, backend |-> "thread", chunk_size |-> 1,
             show_progress |-> FALSE]
  /\ A_values = None /\ B_values = None /\ v0_values = None
  /\ results = NoCells /\ params = <<>> /\ chunks = <<>> /\ futures = <<>>
  /\ yielded = {} /\ nmerged = <<>> /\ writes = NoWrites
  /\ calls = 0 /\ dispatched = 0 /\ pc = "idle" /\ err = "none"

DriverArgs ==
  [dt : 1..MaxDt, tf : 0..MaxTf, tol : {0, 1}, B : {0, 1}, r0 : 0..MaxR,
   v0 : {0, 1}]

\* np.linalg.norm(r) < 1e-7, r in units of 1e-7
BelowThreshold(x) == x < 1

\* dt = min(dt * rho**(1/4), 2 * dt), rounded down to the time unit
NextDt(d, f) == Min((d * f) \div 2, 2 * d)

\* rho = 30 * dt * tol / norm with norm >= 1e-20: rho is 0 when dt or tol
\* is 0 and positive otherwise; the values rho^(1/4) takes, in halves
RhoFactors(tol, d) == IF tol = 0 \/ d = 0 THEN {0} ELSE 1..MaxFactor

\* if rho >= 1
Accepted(f) == f >= 2

\* a variable written in the accepted branch only is left as it was
\* when the step is rejected
Commit_Always(accepted, old, new) == new

\* the value of a variable the accepted branch assigns, after the branch
Commit(accepted, old, new) == IF accepted THEN new ELSE old

\* the loop test: i < num_steps // 2
InBudget(n, steps) == n < steps \div 2

\* t += 2 * dt
Advance(tt, d) == tt + 2 * d

\* the threshold test with <= in place of <
ExitTest_Inclusive(x) == x <= 1

\* the test under which the loop returns t
ExitTest(x) == BelowThreshold(x)

DInit ==
  /\ dargs \in DriverArgs
  /\ num_steps = 0 /\ r = 0 /\ v = 0 /\ t = 0 /\ i = 0 /\ dt = 0
  /\ last = "none" /\ tick = 0 /\ dpc = "call" /\ ret = 0
  /\ SweepIdle

\* num_steps = int(tf / dt); r = r0; v = v0; t = 0; i = 0
Enter ==
  /\ dpc = "call"
  /\ num_steps' = dargs.tf \div dargs.dt
  /\ r' = dargs.r0
  /\ v' = dargs.v0
  /\ t' = 0
  /\ i' = 0
  /\ dt' = dargs.dt
  /\ dpc' = "loop"
  /\ UNCHANGED <<dargs, last, tick, ret>>
  /\ UNCHANGED svars

\* an iteration whose first rk4_step raises: vel_dispersion divides by zero
IterateRaise ==
  /\ dpc = "loop"
  /\ InBudget(i, num_steps)
  /\ Rk4StepRaises(<<v>>, 1, dargs.B)
  /\ dpc' = "raised"
  /\ UNCHANGED <<dargs, num_steps, r, v, t, i, dt, last, tick, ret>>
  /\ UNCHANGED svars

\* one iteration of the loop: the three rk4 steps give (r1, v1) and the
\* factor f; the step is accepted (rho >= 1) or rejected, dt is updated,
\* and the threshold test returns t
Iterate(r1, v1, f) ==
  /\ dpc = "loop"
  /\ InBudget(i, num_steps)
  /\ ~Rk4StepRaises(<<v>>, 1, dargs.B)
  /\ dt = 0 => (r1 = r /\ v1 = v)
  /\ f \in RhoFactors(dargs.tol, dt)
  /\ t' = Commit(Accepted(f), t, Advance(t, dt))
  /\ r' = Commit(Accepted(f), r, r1)
  /\ v' = Commit(Accepted(f), v, v1)
  /\ i' = Commit(Accepted(f), i, i + 1)
  /\ last' = IF Accepted(f) THEN "accept" ELSE "reject"
  /\ tick' = 1 - tick
  /\ dt' = NextDt(dt, f)
  /\ IF ExitTest(r')
     THEN dpc' = "returned" /\ ret' = t'
     ELSE UNCHANGED <<dpc, ret>>
  /\ UNCHANGED <<dargs, num_steps>>
  /\ UNCHANGED svars

\* the loop test fails: return tf
Timeout ==
  /\ dpc = "loop"
  /\ ~InBudget(i, num_steps)
  /\ dpc' = "returned"
  /\ ret' = dargs.tf
  /\ UNCHANGED <<dargs, num_steps, r, v, t, i, dt, last, tick>>
  /\ UNCHANGED svars

DNext ==
  \/ Enter
  \/ IterateRaise
  \/ \E r1 \in 0..MaxR, v1 \in {0, 1}, f \in 0..MaxFactor : Iterate(r1, v1, f)
  \/ Timeout

SpecDriver == DInit /\ [][DNext]_vars

\* the call keeps running: while a step of the driver is possible, one is
\* taken
SpecDriverFair == SpecDriver /\ WF_vars(DNext)


\* ================================================================ claims
KnownBackends == {"thread", "process", "multiprocessing"}

\* the call went down the parallel path and built its batches
Chunked ==
  \/ pc \in {"chunked", "collect", "draining"}
  \/ pc \in {"returned", "raised"} /\ args.parallel
       /\ V0Accepted(args.v0_values)

\* the grid range(N_A) x range(N_B) x range(N_V) of the call
Grid == Cells(PyLen(A_values), PyLen(B_values), PyLen(v0_values))

\* the places <<b, n>> of the batches that hold triple c
PlacesOf(c) ==
  {bn \in UNION {{b} \X DOMAIN chunks[b] : b \in DOMAIN chunks} :
     chunks[bn[1]][bn[2]] = c}

\* C1: in the parallel path, for every grid and every chunk_size (1, 0 and
\* negative values included), the batches are an exact partition of the
\* grid: every triple of the grid is in exactly one place of one batch, no
\* batch is empty, and no batch holds a triple outside the grid.
C1_BatchesPartitionGrid ==
  Chunked =>
    /\ \A c \in Grid : Cardinality(PlacesOf(c)) = 1
    /\ \A b \in DOMAIN chunks : chunks[b] # <<>>
    /\ \A b \in DOMAIN chunks : \A n \in DOMAIN chunks[b] : chunks[b][n] \in Grid

\* a grid of four cells cut by a negative chunk_size
C1_Witness ==
  /\ pc = "chunked"
  /\ args.chunk_size < 0
  /\ Cardinality(Grid) = 4
  /\ Len(chunks) = 4

\* C2: when a parallel sweep returns, every batch was dispatched and merged
\* exactly once and every cell was assigned exactly once, whatever the
\* order of completion; no cell is left at its initial zero.
C2_EveryCellWrittenOnce ==
  (pc = "returned" /\ args.parallel) =>
    /\ dispatched = Len(chunks)
    /\ DOMAIN futures = DOMAIN chunks
    /\ \A b \in DOMAIN chunks : nmerged[b] = 1
    /\ \A c \in Grid : writes[c] = 1 /\ results[c] # Zero

\* a parallel sweep of four batches has returned
C2_Witness ==
  /\ pc = "returned"
  /\ args.parallel
  /\ Len(chunks) = 4
  /\ \A b \in DOMAIN chunks : nmerged[b] = 1

\* C3: a parallel sweep on the thread backend that returns, returns the
\* tensor the sequential sweep of the same arguments returns, whatever the
\* order in which the batches completed.
C3_ThreadEqualsSequential ==
  (pc = "returned" /\ args.parallel /\ args.backend = "thread") =>
    LET s == SequentialSweep(v0_values, A_values, B_values)
    IN  s.ok /\ results = s.res

\* a thread sweep of several batches of more than one triple has returned
C3_Witness ==
  /\ pc = "returned"
  /\ args.parallel
  /\ args.backend = "thread"
  /\ Len(chunks) = 2
  /\ Len(chunks[1]) = 2

RECURSIVE MergeBatches(_, _, _)
\* the tensor after the batches chs[n..] are worked and merged in list order
MergeBatches(chs, n, res) ==
  IF n > Len(chs) THEN res
  ELSE MergeBatches(chs, n + 1,
         MergeOut(res, ProcessChunkWorker(chs[n], v0_values, A_values,
                                          B_values).out))

\* C4: chunk_size is a pure performance knob: the tensor a parallel sweep
\* returns is the tensor the same grid gives under every other chunk_size.
C4_ChunkSizeIrrelevant ==
  (pc = "returned" /\ args.parallel) =>
    \A c2 \in ChunkSizes :
      MergeBatches(Chunks(params, c2), 1,
                   Zeros(PyLen(A_values), PyLen(B_values), PyLen(v0_values)))
        = results

\* a sweep over two velocities in batches of two triples has returned
C4_Witness ==
  /\ pc = "returned"
  /\ args.parallel
  /\ args.chunk_size = 2
  /\ PyLen(v0_values) = 2
  /\ Len(chunks) = 2

\* C5 as claimed: with a backend that is none of the three, parallel or
\* not, no call of time_to_schwarzschild is made, no batch is dispatched,
\* no tensor is returned and the call ends in a configuration error.
C5_UnknownBackendAlwaysFails ==
  args.backend \notin KnownBackends =>
    /\ calls = 0
    /\ dispatched = 0
    /\ pc # "returned"
    /\ pc = "raised" => err = "ValueError"

\* C5 as amended: with parallel=True and a backend that is none of the
\* three, no call of time_to_schwarzschild is made, no batch is dispatched,
\* no tensor is returned and the call ends in a ValueError.
C5_UnknownBackendFailsWhenParallel ==
  (args.parallel /\ args.backend \notin KnownBackends) =>
    /\ calls = 0
    /\ dispatched = 0
    /\ pc # "returned"
    /\ pc = "raised" => err = "ValueError"
    /\ ~ENABLED Next => pc = "raised"

\* a parallel call with a grid of cells has met the unknown backend
C5_Witness ==
  /\ pc = "raised"
  /\ args.parallel
  /\ args.backend \notin KnownBackends
  /\ Len(chunks) >= 2

\* v0_values holds no velocity vector
V0Empty(v0) == ~v0.none /\ Ndim(v0) >= 1 /\ PyLen(v0) = 0

\* C6: with v0_values None or empty (flat, or 2-D of zero rows) the call
\* ends in a configuration error before any computation or dispatch; no
\* tensor whose third dimension is 0 is returned.
C6_EmptyV0Rejected ==
  /\ (args.v0_values.none \/ V0Empty(args.v0_values)) =>
       /\ calls = 0
       /\ dispatched = 0
       /\ pc # "returned"
       /\ pc = "raised" => err = "ValueError"
  /\ pc = "returned" => PyLen(v0_values) # 0

\* some batch's computation has raised
FailedBatch == \E b \in DOMAIN futures : futures[b].st = "failed"

\* C7: a parallel sweep one of whose batches raises never returns a tensor,
\* on any backend and in any order of completion; when the call has ended
\* it has raised the batch's exception.
C7_FailedBatchNeverReturns ==
  /\ (pc = "returned" /\ args.parallel) =>
       \A b \in DOMAIN chunks :
         ProcessChunkWorker(chunks[b], v0_values, A_values, B_values).ok
  /\ FailedBatch =>
       /\ pc # "returned"
       /\ ~ENABLED Next => (pc = "raised" /\ err = "ZeroDivisionError")

\* the sweep has raised after one batch failed and another was merged
C7_Witness ==
  /\ pc = "raised"
  /\ err = "ZeroDivisionError"
  /\ FailedBatch
  /\ \E b \in DOMAIN chunks : nmerged[b] = 1

\* C8: the accumulated time t of the driver loop never exceeds tf, and
\* every value returned is at most tf.
C8_TimeWithinTf ==
  /\ t <= dargs.tf
  /\ dpc = "returned" => ret <= dargs.tf

\* C9: a zero drag denominator (B = 0, |v| = 0) is never raised to the
\* caller: the driver and the sweep end without a division error.
C9_NoDivisionError ==
  /\ dpc # "raised"
  /\ err # "ZeroDivisionError"

\* C10: a non-empty flat v0_values is one velocity vector: the tensor
\* returned has shape (N_A, N_B, 1) and cell [i, j, 0] holds the driver's
\* result for (A_values[i], B_values[j], that vector), sequential or
\* parallel.
C10_FlatVectorPromoted ==
  (pc = "returned" /\ ~args.v0_values.none /\ Ndim(args.v0_values) = 1) =>
    /\ DOMAIN results = Cells(PyLen(A_values), PyLen(B_values), 1)
    /\ \A c \in DOMAIN results :
         results[c] = TimeToSchwarzschild(args.v0_values.data,
                                          Item(A_values, c[1]),
                                          Item(B_values, c[2])).t

\* a parallel sweep over a flat vector of two components has returned
C10_Witness ==
  /\ pc = "returned"
  /\ args.parallel
  /\ Ndim(args.v0_values) = 1
  /\ Len(args.v0_values.data) = 2
  /\ Cardinality(DOMAIN results) >= 2

\* a step of the driver that is one iteration of the loop
IterationStep ==
  \E r1 \in 0..MaxR, v1 \in {0, 1}, f \in 0..MaxFactor : Iterate(r1, v1, f)

\* a step of the driver that is an iteration with rho < 1
RejectedIteration ==
  \E r1 \in 0..MaxR, v1 \in {0, 1}, f \in 0..MaxFactor :
    ~Accepted(f) /\ Iterate(r1, v1, f)

\* C11: an iteration with rho < 1 leaves the position r, the velocity v,
\* the accumulated time t and the accepted-step counter i as they were; of
\* the loop's variables only dt changes.
C11_RejectKeepsState ==
  [][RejectedIteration =>
       (r' = r /\ v' = v /\ t' = t /\ i' = i /\ num_steps' = num_steps
        /\ dargs' = dargs)]_vars

\* a step was rejected after one was accepted, and the loop goes on
C11_Witness ==
  /\ dpc = "loop"
  /\ last = "reject"
  /\ i >= 1
  /\ t > 0
  /\ r # 0
  /\ dt < dargs.dt

\* C12 as claimed: an iteration returns by early exit exactly when it
\* accepted its step and the committed position is below the threshold; a
\* rejected iteration never returns.
C12_ExitOnlyOnAccept ==
  [][IterationStep =>
       ((dpc' = "returned") <=> (last' = "accept" /\ BelowThreshold(r')))]_vars

\* C12 as amended: the threshold test follows every iteration, accepted or
\* rejected: an iteration returns the accumulated time exactly when the
\* committed position is below the threshold; a rejected iteration returns
\* only while no step has been accepted, the position being r0, and then
\* returns 0.
C12_ExitAfterEveryIteration ==
  [][IterationStep =>
       /\ (dpc' = "returned") <=> BelowThreshold(r')
       /\ dpc' = "returned" => ret' = t'
       /\ (dpc' = "returned" /\ last' = "reject") =>
            (i' = 0 /\ t' = 0 /\ ret' = 0 /\ r' = dargs.r0)]_vars

\* the first iteration rejected its step and returned, r0 being below the
\* threshold
C12_Witness ==
  /\ dpc = "returned"
  /\ last = "reject"
  /\ i = 0
  /\ ret = 0
  /\ num_steps >= 2
  /\ BelowThreshold(dargs.r0)

\* C13: every call of time_to_schwarzschild ends: a run of rejected
\* iterations cannot keep the loop going forever.
C13_CallEnds == <>(dpc \in {"returned", "raised"})

====
